---- MODULE Spec2Model ----
(***************************************************************************)
(* SmartTEAM Live (src/live.js): the connection supervisor and the message *)
(* interpreter of class SmartteamLiveExtension, as a state machine.        *)
(*                                                                         *)
(* The extension object's fields are the variables whose names start with  *)
(* an underscore.  The host's collaborators are modelled beside them: the   *)
(* WebSocket objects the extension has constructed (sockets), the timers    *)
(* handed to setTimeout and not yet fired or cleared (timers), and the      *)
(* calls of Scratch.canFetch that have not settled yet (canFetchPending).   *)
(* One action is one run-to-completion job of the single JavaScript thread: *)
(* a block command, the continuation of _openWsAsync after its await, the   *)
(* timer callback, or one WebSocket event.                                  *)
(*                                                                         *)
(* src/live.js holds two deployments of the class.  The model follows the   *)
(* first (lines 14-470); the second (lines 472-988) has the same commands,  *)
(* connect sequence, callbacks and backoff, and differs in where the room   *)
(* parameter is read from (a polling probe of the page URL) and in passing  *)
(* an http(s) form of the address to Scratch.canFetch.                      *)
(*                                                                         *)
(* Scratch.canFetch is an async function of the host: it settles in a later *)
(* job than the one that called it, whether it resolves or rejects.         *)
(***************************************************************************)
EXTENDS Integers, Sequences, FiniteSets, Bags, TLC

VARIABLES
    _connected,       \* this._connected
    _room,            \* this._room, a sequence of characters
    _wsBase,          \* this._wsBase
    _gesture,         \* this._gesture
    _confidence,      \* this._confidence, in hundredths
    _subscribers,     \* this._subscribers
    _defaultRoom,     \* this._defaultRoom
    _ws,              \* this._ws: a socket id, or Null
    _shouldReconnect, \* this._shouldReconnect
    _reconnectTimer,  \* this._reconnectTimer: a timer id, or Null
    _backoffIndex,    \* this._backoffIndex
    sockets,          \* the WebSocket objects constructed so far, by id
    timers,           \* the timers set and neither fired nor cleared
    canFetchPending,  \* bag of URLs whose Scratch.canFetch has not settled
    lastOp,           \* history: the job that produced this state
    manualStop,       \* history: disconnect() ran and no setRoom/reconnect since
    retriesSinceCommand, \* history: retries scheduled since the last setRoom,
                         \* reconnect or open event (saturating)
    retriesSinceCycle    \* history: retries scheduled since the last setRoom or
                         \* reconnect that started a cycle, or open event

vars == <<_connected, _room, _wsBase, _gesture, _confidence, _subscribers,
          _defaultRoom, _ws, _shouldReconnect, _reconnectTimer, _backoffIndex,
          sockets, timers, canFetchPending, lastOp, manualStop,
          retriesSinceCommand, retriesSinceCycle>>

-----------------------------------------------------------------------------
(* Bounds of the model.                                                     *)

\* WebSocket objects that exist at once (constructed, close event not yet fired).
MaxSockets == 2
\* Scratch.canFetch calls outstanding at once.
MaxPending == 2
\* The retry counters of the history saturate here (past the table's length).
RetryCountCap == 5

-----------------------------------------------------------------------------
(* Program constants.                                                       *)

DEFAULT_WS_BASE == "wss://smartteam-gesture-bridge.marianobat.workers.dev/ws"

BACKOFF_MS == <<1000, 2000, 3000, 5000>>

\* null, for this._ws and this._reconnectTimer (ids are positive).
Null == 0

Min(a, b) == IF a <= b THEN a ELSE b

-----------------------------------------------------------------------------
(* Strings of the room argument are sequences of characters, so that trim   *)
(* is computed.                                                             *)

Whitespace == {" "}

RECURSIVE TrimStart(_)
TrimStart(str) ==
    IF str # <<>> /\ Head(str) \in Whitespace THEN TrimStart(Tail(str)) ELSE str

RECURSIVE TrimEnd(_)
TrimEnd(str) ==
    IF str # <<>> /\ str[Len(str)] \in Whitespace
    THEN TrimEnd(SubSeq(str, 1, Len(str) - 1))
    ELSE str

\* String(room || "").trim()
normalizeRoom(room) == TrimEnd(TrimStart(room))

\* The ROOM arguments a "set room to" block is run with.
RoomArgs == { <<>>, <<" ">>, <<"a">>, <<" ", "b">> }

\* The room parameter of the extension's script URL.
RoomParams == { <<>>, <<"a">> }

-----------------------------------------------------------------------------
(* URLs.  new URL(text) either throws or yields a URL with a protocol.       *)

\* The wsBase parameter of the extension's script URL: absent, the default
\* given explicitly, a URL of another scheme, and text that is no URL.
WsBaseParams == { "", DEFAULT_WS_BASE, "https://example.org/ws", "not a url" }

UrlParses(text) == text \in { DEFAULT_WS_BASE, "https://example.org/ws" }

UrlProtocol(text) ==
    CASE text = DEFAULT_WS_BASE -> "wss:"
      [] text = "https://example.org/ws" -> "https:"
      [] OTHER -> ""

normalizeWsBase(maybeWsBase) ==
    IF maybeWsBase = "" THEN DEFAULT_WS_BASE
    ELSE IF ~UrlParses(maybeWsBase) THEN DEFAULT_WS_BASE
    ELSE IF UrlProtocol(maybeWsBase) \in {"ws:", "wss:"} THEN maybeWsBase
    ELSE DEFAULT_WS_BASE

\* A built address: the base with its room query parameter set.
NoUrl == [base |-> "", room |-> <<>>]

\* _buildWsUrl: throws (ok = FALSE) when new URL(base) throws.
_buildWsUrl(s) ==
    LET base == IF s.wsBase # "" THEN s.wsBase ELSE DEFAULT_WS_BASE
    IN  IF UrlParses(base)
        THEN [ok |-> TRUE, url |-> [base |-> base, room |-> s.room]]
        ELSE [ok |-> FALSE, url |-> NoUrl]

-----------------------------------------------------------------------------
(* The host's objects.                                                      *)

SocketIds == 1..MaxSockets

FreeSocket == [st |-> "free", url |-> NoUrl, attached |-> FALSE]

\* The WebSocket objects that exist.
Existing(sock) == { i \in DOMAIN sock : sock[i].st # "free" }

\* The id the next constructed WebSocket gets.
NewSocketId(sock) ==
    CHOOSE i \in DOMAIN sock :
        /\ sock[i].st = "free"
        /\ \A j \in DOMAIN sock : sock[j].st = "free" => i <= j

TimerIdsOf(tm) == { t.id : t \in tm }

\* The handle setTimeout returns: a positive integer not in use.
NewTimerId(tm) ==
    CHOOSE i \in 1..(Cardinality(tm) + 1) :
        /\ i \notin TimerIdsOf(tm)
        /\ \A j \in 1..(Cardinality(tm) + 1) : j \notin TimerIdsOf(tm) => i <= j

-----------------------------------------------------------------------------
(* The extension object and the host's objects as one record, on which the  *)
(* methods below compute.  The last field records the delay of the retry    *)
(* the job scheduled (0: none).                                             *)

This ==
    [ connected |-> _connected, room |-> _room, wsBase |-> _wsBase,
      gesture |-> _gesture, confidence |-> _confidence,
      subscribers |-> _subscribers, defaultRoom |-> _defaultRoom,
      ws |-> _ws, shouldReconnect |-> _shouldReconnect,
      reconnectTimer |-> _reconnectTimer, backoffIndex |-> _backoffIndex,
      sockets |-> sockets, timers |-> timers, pending |-> canFetchPending,
      delay |-> 0 ]

\* clearTimeout(id)
clearTimeout(tm, id) == { t \in tm : t.id # id }

_clearReconnectTimer(s) ==
    IF s.reconnectTimer # Null
    THEN [s EXCEPT !.timers = clearTimeout(@, s.reconnectTimer),
                   !.reconnectTimer = Null]
    ELSE s

\* ws.close(code, reason): the socket is closing; its close event follows.
close(sock, w) == [sock EXCEPT ![w].st = "closing"]

\* Detaches the four callbacks of the held socket, closes it and drops it.
_closeWs(s) ==
    LET w == s.ws
    IN  IF w # Null
        THEN [s EXCEPT !.ws = Null,
                       !.sockets = close([@ EXCEPT ![w].attached = FALSE], w)]
        ELSE [s EXCEPT !.ws = Null]

\* _scheduleReconnect without its third guard: a retry is scheduled although
\* one is pending.
_scheduleReconnect_noPendingGuard(s) ==
    IF ~s.shouldReconnect THEN s
    ELSE IF s.room = <<>> THEN s
    ELSE LET idx == Min(s.backoffIndex, Len(BACKOFF_MS) - 1)
             delay == BACKOFF_MS[idx + 1]
             id == NewTimerId(s.timers)
         IN  [s EXCEPT !.backoffIndex = Min(@ + 1, Len(BACKOFF_MS) - 1),
                       !.timers = @ \cup {[id |-> id, delay |-> delay]},
                       !.reconnectTimer = id,
                       !.delay = delay]

\* _scheduleReconnect whose index wraps around the table instead of
\* saturating at its last entry.
_scheduleReconnect_wraps(s) ==
    IF ~s.shouldReconnect THEN s
    ELSE IF s.room = <<>> THEN s
    ELSE IF s.reconnectTimer # Null THEN s
    ELSE LET idx == Min(s.backoffIndex, Len(BACKOFF_MS) - 1)
             delay == BACKOFF_MS[idx + 1]
             id == NewTimerId(s.timers)
         IN  [s EXCEPT !.backoffIndex = (@ + 1) % Len(BACKOFF_MS),
                       !.timers = @ \cup {[id |-> id, delay |-> delay]},
                       !.reconnectTimer = id,
                       !.delay = delay]

\* _scheduleReconnect raising the index without the cap.
_scheduleReconnect_uncapped(s) ==
    IF ~s.shouldReconnect THEN s
    ELSE IF s.room = <<>> THEN s
    ELSE IF s.reconnectTimer # Null THEN s
    ELSE LET idx == Min(s.backoffIndex, Len(BACKOFF_MS) - 1)
             delay == BACKOFF_MS[idx + 1]
             id == NewTimerId(s.timers)
         IN  [s EXCEPT !.backoffIndex = @ + 1,
                       !.timers = @ \cup {[id |-> id, delay |-> delay]},
                       !.reconnectTimer = id,
                       !.delay = delay]

_scheduleReconnect(s) ==
    IF ~s.shouldReconnect THEN s
    ELSE IF s.room = <<>> THEN s
    ELSE IF s.reconnectTimer # Null THEN s
    ELSE LET idx == Min(s.backoffIndex, Len(BACKOFF_MS) - 1)
             delay == BACKOFF_MS[idx + 1]
             id == NewTimerId(s.timers)
         IN  [s EXCEPT !.backoffIndex = Min(@ + 1, Len(BACKOFF_MS) - 1),
                       !.timers = @ \cup {[id |-> id, delay |-> delay]},
                       !.reconnectTimer = id,
                       !.delay = delay]

\* _openWs: _openWsAsync as far as its await of Scratch.canFetch.
_openWs(s) ==
    IF s.room = <<>> THEN [s EXCEPT !.connected = FALSE]
    ELSE IF ~s.shouldReconnect THEN [s EXCEPT !.connected = FALSE]
    ELSE LET first == _buildWsUrl(s)
             s1 == IF first.ok THEN s ELSE [s EXCEPT !.wsBase = DEFAULT_WS_BASE]
             built == IF first.ok THEN first ELSE _buildWsUrl(s1)
         IN  IF ~built.ok
             THEN _scheduleReconnect([s1 EXCEPT !.connected = FALSE])
             ELSE [s1 EXCEPT !.pending = @ (+) SetToBag({built.url})]

\* setRoomInternal without the "if unchanged, do nothing" return.
setRoomInternal_alwaysReconnects(s, room, auto) ==
    IF room = <<>>
    THEN LET s1 == [s EXCEPT !.room = <<>>, !.connected = FALSE]
         IN  IF ~auto
             THEN _closeWs(_clearReconnectTimer(
                      [s1 EXCEPT !.shouldReconnect = FALSE]))
             ELSE s1
    ELSE LET s1 == [s EXCEPT !.defaultRoom = room]
         IN  _openWs(_closeWs(_clearReconnectTimer(
                 [s1 EXCEPT !.room = room,
                            !.gesture = "",
                            !.confidence = 0,
                            !.subscribers = 0,
                            !.backoffIndex = 0,
                            !.shouldReconnect = TRUE])))

\* setRoomInternal that clears intent, timer and socket for an empty room
\* whether or not the call is automatic.
setRoomInternal_ignoresAuto(s, room, auto) ==
    IF room = <<>>
    THEN _closeWs(_clearReconnectTimer(
             [s EXCEPT !.room = <<>>, !.connected = FALSE,
                       !.shouldReconnect = FALSE]))
    ELSE LET s1 == [s EXCEPT !.defaultRoom = room]
         IN  IF room = s1.room /\ s1.ws # Null THEN s1
             ELSE _openWs(_closeWs(_clearReconnectTimer(
                      [s1 EXCEPT !.room = room,
                                 !.gesture = "",
                                 !.confidence = 0,
                                 !.subscribers = 0,
                                 !.backoffIndex = 0,
                                 !.shouldReconnect = TRUE])))

setRoomInternal(s, room, auto) ==
    IF room = <<>>
    THEN LET s1 == [s EXCEPT !.room = <<>>, !.connected = FALSE]
         IN  IF ~auto
             THEN _closeWs(_clearReconnectTimer(
                      [s1 EXCEPT !.shouldReconnect = FALSE]))
             ELSE s1
    ELSE LET s1 == [s EXCEPT !.defaultRoom = room]
         IN  IF room = s1.room /\ s1.ws # Null THEN s1
             ELSE _openWs(_closeWs(_clearReconnectTimer(
                      [s1 EXCEPT !.room = room,
                                 !.gesture = "",
                                 !.confidence = 0,
                                 !.subscribers = 0,
                                 !.backoffIndex = 0,
                                 !.shouldReconnect = TRUE])))

setRoom(s, arg) == setRoomInternal(s, normalizeRoom(arg), FALSE)

\* reconnect that returns at once when already connected.
reconnect_skipsWhenConnected(s) ==
    IF s.room = <<>> THEN [s EXCEPT !.connected = FALSE]
    ELSE IF s.connected THEN s
    ELSE _openWs(_closeWs(_clearReconnectTimer(
             [s EXCEPT !.backoffIndex = 0, !.shouldReconnect = TRUE])))

reconnect(s) ==
    IF s.room = <<>> THEN [s EXCEPT !.connected = FALSE]
    ELSE _openWs(_closeWs(_clearReconnectTimer(
             [s EXCEPT !.backoffIndex = 0, !.shouldReconnect = TRUE])))

\* disconnect that leaves the pending retry alone.
disconnect_keepsTimer(s) ==
    LET s1 == _closeWs([s EXCEPT !.shouldReconnect = FALSE])
    IN  [s1 EXCEPT !.connected = FALSE]

disconnect(s) ==
    LET s1 == _closeWs(_clearReconnectTimer([s EXCEPT !.shouldReconnect = FALSE]))
    IN  [s1 EXCEPT !.connected = FALSE]

\* _openWsAsync after its await.  outcome is what Scratch.canFetch and the
\* WebSocket constructor did: "rejected" (canFetch threw), "denied" (it
\* resolved to false), "constructorThrows" (allowed, new WebSocket threw),
\* "granted" (allowed, the socket was constructed).
\* _openWsAsync returning on a denied check without _scheduleReconnect.
_openWsAsync_deniedGivesUp(s, wsUrl, outcome) ==
    LET s0 == [s EXCEPT !.pending = @ (-) SetToBag({wsUrl})]
    IN  CASE outcome = "rejected" ->
                 _scheduleReconnect([s0 EXCEPT !.connected = FALSE])
          [] outcome = "denied" -> [s0 EXCEPT !.connected = FALSE]
          [] outcome = "constructorThrows" ->
                 _scheduleReconnect([s0 EXCEPT !.connected = FALSE, !.ws = Null])
          [] outcome = "granted" ->
                 LET id == NewSocketId(s0.sockets)
                 IN  [s0 EXCEPT !.sockets[id] = [st |-> "connecting",
                                                 url |-> wsUrl,
                                                 attached |-> TRUE],
                                !.ws = id]

_openWsAsync(s, wsUrl, outcome) ==
    LET s0 == [s EXCEPT !.pending = @ (-) SetToBag({wsUrl})]
    IN  CASE outcome = "rejected" ->
                 _scheduleReconnect([s0 EXCEPT !.connected = FALSE])
          [] outcome = "denied" ->
                 _scheduleReconnect([s0 EXCEPT !.connected = FALSE])
          [] outcome = "constructorThrows" ->
                 _scheduleReconnect([s0 EXCEPT !.connected = FALSE, !.ws = Null])
          [] outcome = "granted" ->
                 LET id == NewSocketId(s0.sockets)
                 IN  [s0 EXCEPT !.sockets[id] = [st |-> "connecting",
                                                 url |-> wsUrl,
                                                 attached |-> TRUE],
                                !.ws = id]

\* The callback without its call of _openWs.
reconnectTimerCallback_neverOpens(s) == [s EXCEPT !.reconnectTimer = Null]

\* The callback without its test of the handle.
reconnectTimerCallback_ignoresHandle(s) ==
    LET s1 == [s EXCEPT !.reconnectTimer = Null]
    IN  IF ~s1.shouldReconnect THEN s1
        ELSE IF s1.room = <<>> THEN s1
        ELSE _openWs(s1)

\* The callback given to setTimeout.
reconnectTimerCallback(s) ==
    LET s1 == [s EXCEPT !.reconnectTimer = Null]
    IN  IF s1.ws # Null THEN s1
        ELSE IF ~s1.shouldReconnect THEN s1
        ELSE IF s1.room = <<>> THEN s1
        ELSE _openWs(s1)

\* onopen without the reset of the backoff index.
onopen_keepsBackoff(s) == [s EXCEPT !.connected = TRUE]

onopen(s) == [s EXCEPT !.connected = TRUE, !.backoffIndex = 0]

onerror(s) == [s EXCEPT !.connected = FALSE]

\* onclose without the call of _scheduleReconnect.
onclose_noRetry(s) == [s EXCEPT !.connected = FALSE, !.ws = Null]

onclose(s) == _scheduleReconnect([s EXCEPT !.connected = FALSE, !.ws = Null])

-----------------------------------------------------------------------------
(* The message interpreter.  A frame's text is modelled by what JSON.parse  *)
(* makes of it: it throws, or yields null, a scalar, an array or an object  *)
(* whose fields type, label, confidence and subscribers hold JavaScript     *)
(* values.  Numbers are integers in units of 1/100 (87 is 0.87, 300 is 3).  *)

Undefined == [t |-> "undefined", s |-> "", n |-> 0]
JsNull == [t |-> "null", s |-> "", n |-> 0]
JsInfinity == [t |-> "infinity", s |-> "", n |-> 0]
JsObject == [t |-> "object", s |-> "", n |-> 0]
Str(x) == [t |-> "string", s |-> x, n |-> 0]
Num(k) == [t |-> "number", s |-> "", n |-> k]
Bool(b) == [t |-> "boolean", s |-> "", n |-> IF b THEN 100 ELSE 0]

Frame(parse, type, label, confidence, subscribers) ==
    [parse |-> parse, type |-> type, label |-> label,
     confidence |-> confidence, subscribers |-> subscribers]

\* The strings Number() reads as a number, with the number.
NumericStrings == { <<"", 0>>, <<"3", 300>>, <<"0.87", 87>> }

\* Number(x): [finite, n].
Number(x) ==
    CASE x.t = "number" -> [finite |-> TRUE, n |-> x.n]
      [] x.t = "boolean" -> [finite |-> TRUE, n |-> x.n]
      [] x.t = "null" -> [finite |-> TRUE, n |-> 0]
      [] x.t = "string" ->
             IF \E p \in NumericStrings : p[1] = x.s
             THEN [finite |-> TRUE,
                   n |-> (CHOOSE p \in NumericStrings : p[1] = x.s)[2]]
             ELSE [finite |-> FALSE, n |-> 0]
      [] OTHER -> [finite |-> FALSE, n |-> 0]

\* toFiniteNumber with 0 for every fallback.
toFiniteNumber_zeroFallback(x, fallback) ==
    LET n == Number(x) IN IF n.finite THEN n.n ELSE 0

toFiniteNumber(x, fallback) ==
    LET n == Number(x) IN IF n.finite THEN n.n ELSE fallback

\* safeJsonParse: null when JSON.parse throws.
safeJsonParse(data) ==
    IF data.parse = "throws"
    THEN Frame("null", Undefined, Undefined, Undefined, Undefined)
    ELSE data

\* onmessage taking every object for a gesture frame.
onmessage_anyTypeIsGesture(s, data) ==
    LET msg == safeJsonParse(data)
    IN  IF msg.parse \notin {"object", "array"} THEN s
        ELSE [s EXCEPT !.gesture = IF msg.label.t = "string"
                                   THEN msg.label.s ELSE "",
                       !.confidence = toFiniteNumber(msg.confidence, 0)]

onmessage(s, data) ==
    LET msg == safeJsonParse(data)
    IN  IF msg.parse \notin {"object", "array"} THEN s
        ELSE IF msg.type = Str("gesture")
        THEN LET label == IF msg.label.t = "string" THEN msg.label.s ELSE ""
                 conf == toFiniteNumber(msg.confidence, 0)
             IN  [s EXCEPT !.gesture = label, !.confidence = conf]
        ELSE IF msg.type = Str("presence")
        THEN LET subs == toFiniteNumber(msg.subscribers, s.subscribers)
             IN  [s EXCEPT !.subscribers = subs]
        ELSE s

\* The frames the stream delivers.
Payloads ==
    { Frame("throws", Undefined, Undefined, Undefined, Undefined),
      Frame("object", Str("gesture"), Str("wave"), Num(87), Undefined),
      Frame("object", Str("presence"), Undefined, Undefined, Num(300)) }

-----------------------------------------------------------------------------
(* The state machine.                                                       *)

\* The constructor: wsBase and room come from the script URL's parameters.
Constructor(wsBaseFromScript, roomParam) ==
    LET roomFromScript == normalizeRoom(roomParam)
        s0 == [ connected |-> FALSE, room |-> <<>>,
                wsBase |-> normalizeWsBase(wsBaseFromScript),
                gesture |-> "", confidence |-> 0, subscribers |-> 0,
                defaultRoom |-> roomFromScript,
                ws |-> Null, shouldReconnect |-> FALSE,
                reconnectTimer |-> Null, backoffIndex |-> 0,
                sockets |-> [i \in SocketIds |-> FreeSocket],
                timers |-> {}, pending |-> EmptyBag,
                delay |-> 0 ]
    IN  IF roomFromScript # <<>>
        THEN setRoomInternal(s0, roomFromScript, TRUE)
        ELSE [s0 EXCEPT !.connected = FALSE]

\* A job that is no event of a socket.
NoSocket == "none"

\* What lastOp records of a job: its name, the ROOM argument of a setRoom
\* (of the constructor: the room parameter), of a socket's event the role of
\* the socket (see SockRole) and the delay of the retry the job scheduled
\* (0: none).
Op(op, arg, sock, s) ==
    [op |-> op, arg |-> arg, sock |-> sock, delay |-> s.delay]

\* The fields of the record become the state.
Store(s) ==
    /\ _connected' = s.connected
    /\ _room' = s.room
    /\ _wsBase' = s.wsBase
    /\ _gesture' = s.gesture
    /\ _confidence' = s.confidence
    /\ _subscribers' = s.subscribers
    /\ _defaultRoom' = s.defaultRoom
    /\ _ws' = s.ws
    /\ _shouldReconnect' = s.shouldReconnect
    /\ _reconnectTimer' = s.reconnectTimer
    /\ _backoffIndex' = s.backoffIndex
    /\ sockets' = s.sockets
    /\ timers' = s.timers
    /\ canFetchPending' = s.pending

Count(c, reset, s) ==
    LET base == IF reset THEN 0 ELSE c
    IN  IF s.delay # 0 THEN Min(base + 1, RetryCountCap) ELSE base

\* A job ran and left s.  command: it was a setRoom or reconnect call;
\* cycle: one that took the (re)connect path; opened: an open event reached
\* its handler.
Commit(op, arg, sock, s, command, cycle, opened) ==
    /\ BagCardinality(s.pending) <= MaxPending
    /\ Store(s)
    /\ lastOp' = Op(op, arg, sock, s)
    /\ manualStop' = IF op = "disconnect" THEN TRUE
                     ELSE IF command THEN FALSE
                     ELSE manualStop
    /\ retriesSinceCommand' = Count(retriesSinceCommand, command \/ opened, s)
    /\ retriesSinceCycle' = Count(retriesSinceCycle, cycle \/ opened, s)

Init ==
    \E w \in WsBaseParams, r \in RoomParams :
        LET s == Constructor(w, r)
        IN  /\ _connected = s.connected
            /\ _room = s.room
            /\ _wsBase = s.wsBase
            /\ _gesture = s.gesture
            /\ _confidence = s.confidence
            /\ _subscribers = s.subscribers
            /\ _defaultRoom = s.defaultRoom
            /\ _ws = s.ws
            /\ _shouldReconnect = s.shouldReconnect
            /\ _reconnectTimer = s.reconnectTimer
            /\ _backoffIndex = s.backoffIndex
            /\ sockets = s.sockets
            /\ timers = s.timers
            /\ canFetchPending = s.pending
            /\ lastOp = Op("constructor", r, NoSocket, s)
            /\ manualStop = FALSE
            /\ retriesSinceCommand = 0
            /\ retriesSinceCycle = 0

\* The "set room to [ROOM]" block.
SetRoom(arg) ==
    /\ arg \in RoomArgs
    /\ Commit("setRoom", arg, NoSocket, setRoom(This, arg), TRUE,
              /\ normalizeRoom(arg) # <<>>
              /\ ~(normalizeRoom(arg) = _room /\ _ws # Null),
              FALSE)

\* The "reconnect" block.
Reconnect ==
    /\ TRUE
    /\ Commit("reconnect", <<>>, NoSocket, reconnect(This),
              TRUE, _room # <<>>, FALSE)

\* The "disconnect" block.
Disconnect ==
    /\ TRUE
    /\ Commit("disconnect", <<>>, NoSocket, disconnect(This),
              FALSE, FALSE, FALSE)

\* Scratch.canFetch(wsUrl) resolves to true and new WebSocket(wsUrl) succeeds.
PermissionGranted(wsUrl) ==
    /\ BagIn(wsUrl, canFetchPending)
    /\ Existing(sockets) # SocketIds
    /\ Commit("granted", <<>>, NoSocket,
              _openWsAsync(This, wsUrl, "granted"),
              FALSE, FALSE, FALSE)

\* Scratch.canFetch(wsUrl) resolves to true and new WebSocket(wsUrl) throws.
ConstructorThrows(wsUrl) ==
    /\ BagIn(wsUrl, canFetchPending)
    /\ Commit("constructorThrows", <<>>, NoSocket,
              _openWsAsync(This, wsUrl, "constructorThrows"),
              FALSE, FALSE, FALSE)

\* Scratch.canFetch(wsUrl) resolves to false.
PermissionDenied(wsUrl) ==
    /\ BagIn(wsUrl, canFetchPending)
    /\ Commit("denied", <<>>, NoSocket,
              _openWsAsync(This, wsUrl, "denied"),
              FALSE, FALSE, FALSE)

\* Scratch.canFetch(wsUrl) rejects.
PermissionRejected(wsUrl) ==
    /\ BagIn(wsUrl, canFetchPending)
    /\ Commit("rejected", <<>>, NoSocket,
              _openWsAsync(This, wsUrl, "rejected"),
              FALSE, FALSE, FALSE)

\* A timer set by setTimeout fires.
TimerFires(id) ==
    /\ id \in TimerIdsOf(timers)
    /\ Commit("timer", <<>>, NoSocket,
              reconnectTimerCallback([This EXCEPT !.timers = clearTimeout(@, id)]),
              FALSE, FALSE, FALSE)

\* The events of a socket.  A socket that close() was called on has no
\* callback left and is "closing": whatever event of it is still dispatched
\* finds no handler, and its close event ends it.

\* What the session's fields make of socket i when an event of it arrives:
\* it is the one this._ws holds, or one whose callbacks _closeWs has
\* detached, or one that is neither (its callbacks are attached, this._ws
\* is another socket or null).
SockRole(i) ==
    IF _ws = i THEN "held"
    ELSE IF ~sockets[i].attached THEN "detached"
    ELSE "orphan"

\* The open event of a socket.
WsOpen(i) ==
    /\ sockets[i].st \in {"connecting", "closing"}
    /\ LET s == IF sockets[i].st = "closing" THEN This
                ELSE [This EXCEPT !.sockets[i].st = "open"]
       IN  Commit("open", <<>>, SockRole(i),
                  IF sockets[i].attached THEN onopen(s) ELSE s,
                  FALSE, FALSE, sockets[i].attached)

\* A message event of a socket.
WsMessage(i, data) ==
    /\ sockets[i].st \in {"open", "closing"}
    /\ Commit("message", <<>>, SockRole(i),
              IF sockets[i].attached THEN onmessage(This, data) ELSE This,
              FALSE, FALSE, FALSE)

\* The error event of a socket; its close event follows.
WsError(i) ==
    /\ sockets[i].st \in {"connecting", "open", "closing"}
    /\ LET s == IF sockets[i].st = "closing" THEN This
                ELSE [This EXCEPT !.sockets[i].st = "errored"]
       IN  Commit("error", <<>>, SockRole(i),
                  IF sockets[i].attached THEN onerror(s) ELSE s,
                  FALSE, FALSE, FALSE)

\* The close event of a socket, after which it fires no event.
WsClose(i) ==
    /\ sockets[i].st \in {"connecting", "open", "errored", "closing"}
    /\ LET s == [This EXCEPT !.sockets[i] = FreeSocket]
       IN  Commit("close", <<>>, SockRole(i),
                  IF sockets[i].attached THEN onclose(s) ELSE s,
                  FALSE, FALSE, FALSE)

\* The addresses _buildWsUrl can build.
Urls ==
    { [base |-> DEFAULT_WS_BASE, room |-> normalizeRoom(arg)] :
          arg \in RoomArgs \cup RoomParams }

\* The timer handles in use: the session keeps at most one timer, a second
\* id is there for a timer that a fault would leave behind.
TimerIds == 1..2

Next ==
    \/ \E arg \in RoomArgs : SetRoom(arg)
    \/ Reconnect
    \/ Disconnect
    \/ \E u \in Urls : PermissionGranted(u)
    \/ \E u \in Urls : ConstructorThrows(u)
    \/ \E u \in Urls : PermissionDenied(u)
    \/ \E u \in Urls : PermissionRejected(u)
    \/ \E id \in TimerIds : TimerFires(id)
    \/ \E i \in SocketIds : WsOpen(i)
    \/ \E i \in SocketIds, data \in Payloads : WsMessage(i, data)
    \/ \E i \in SocketIds : WsError(i)
    \/ \E i \in SocketIds : WsClose(i)

Spec == Init /\ [][Next]_vars

\* The permission check of a connect attempt settles, one way or another.
PermissionSettles ==
    \E u \in Urls :
        \/ PermissionGranted(u)
        \/ ConstructorThrows(u)
        \/ PermissionDenied(u)
        \/ PermissionRejected(u)

\* The host runs what it was given: a timer set by setTimeout fires unless
\* it is cleared, and the promise of Scratch.canFetch settles.
Fairness ==
    /\ WF_vars(\E id \in TimerIds : TimerFires(id))
    /\ WF_vars(PermissionSettles)

\* The jobs the retry loop is made of: the commands with no room or the
\* room "a", the permission check's outcomes, the timer and the events of a
\* socket that bear on the connection (no frames).
NextFair ==
    \/ \E arg \in RoomParams : SetRoom(arg)
    \/ Reconnect
    \/ Disconnect
    \/ \E u \in Urls : PermissionGranted(u)
    \/ \E u \in Urls : ConstructorThrows(u)
    \/ \E u \in Urls : PermissionDenied(u)
    \/ \E u \in Urls : PermissionRejected(u)
    \/ \E id \in TimerIds : TimerFires(id)
    \/ \E i \in SocketIds : WsOpen(i)
    \/ \E i \in SocketIds : WsError(i)
    \/ \E i \in SocketIds : WsClose(i)

\* The retry loop on such a host.
SpecFair == Init /\ [][NextFair]_vars /\ Fairness

\* Frames of every shape the interpreter tells apart: text that does not
\* parse; JSON null, a scalar, an array; objects with no type, another type
\* or a type that is no string; gesture and presence objects whose fields
\* are absent, of the wrong type, numeric strings, null or not finite.
Frames ==
    { Frame("throws", Undefined, Undefined, Undefined, Undefined),
      Frame("null", Undefined, Undefined, Undefined, Undefined),
      Frame("scalar", Undefined, Undefined, Undefined, Undefined),
      Frame("array", Undefined, Undefined, Undefined, Undefined),
      Frame("object", Undefined, Str("wave"), Num(87), Num(300)),
      Frame("object", Str("ping"), Str("wave"), Num(87), Num(300)),
      Frame("object", Num(87), Str("wave"), Num(87), Num(300)),
      Frame("object", Str("gesture"), Str("wave"), Num(87), Undefined),
      Frame("object", Str("gesture"), Str("wave"), Str("0.87"), Num(300)),
      Frame("object", Str("gesture"), Undefined, Undefined, Undefined),
      Frame("object", Str("gesture"), Num(300), JsInfinity, Undefined),
      Frame("object", Str("gesture"), JsNull, Str("wave"), Undefined),
      Frame("object", Str("gesture"), Str(""), JsNull, Undefined),
      Frame("object", Str("gesture"), JsObject, JsObject, Undefined),
      Frame("object", Str("presence"), Undefined, Undefined, Num(300)),
      Frame("object", Str("presence"), Str("wave"), Num(87), Str("3")),
      Frame("object", Str("presence"), Undefined, Undefined, Undefined),
      Frame("object", Str("presence"), Undefined, Undefined, JsInfinity),
      Frame("object", Str("presence"), Undefined, Undefined, JsNull),
      Frame("object", Str("presence"), Undefined, Undefined, Str("wave")),
      Frame("object", Str("presence"), Undefined, Undefined, JsObject) }

\* The jobs a frame meets: a room is set or cleared, the attempt is granted,
\* the socket opens, receives frames and closes.
NextFrames ==
    \/ \E arg \in RoomParams : SetRoom(arg)
    \/ \E u \in Urls : PermissionGranted(u)
    \/ \E i \in SocketIds : WsOpen(i)
    \/ \E i \in SocketIds, data \in Frames : WsMessage(i, data)
    \/ \E i \in SocketIds : WsClose(i)

\* The message interpreter at work.
SpecFrames == Init /\ [][NextFrames]_vars

\* setRoomInternal(room, auto = true) called on the object directly.  The
\* constructor makes this call once, and only with a non-empty room, where
\* auto is not read; the call with an empty room is the one added here.
SetRoomInternalAuto(room) ==
    /\ room = <<>>
    /\ Commit("setRoomInternalAuto", room, NoSocket,
           setRoomInternal(This, room, TRUE), TRUE,
           room # <<>> /\ ~(room = _room /\ _ws # Null), FALSE)

NextInternal ==
    \/ Next
    \/ SetRoomInternalAuto(<<>>)

\* The machine with the internal method callable as well.
SpecInternal == Init /\ [][NextInternal]_vars

-----------------------------------------------------------------------------
(* What the claims speak of.                                                *)

\* The extension's fields and the host's objects: the state without history.
progVars ==
    <<_connected, _room, _wsBase, _gesture, _confidence, _subscribers,
      _defaultRoom, _ws, _shouldReconnect, _reconnectTimer, _backoffIndex,
      sockets, timers, canFetchPending>>

\* The sockets that are live: not yet closed, callbacks still attached.
LiveTransports ==
    { i \in SocketIds : sockets[i].st # "free" /\ sockets[i].attached }

\* The sockets discarded by _closeWs whose close event is still to come.
ClosingSockets == { i \in SocketIds : sockets[i].st = "closing" }

\* This step constructs a WebSocket.
OpensTransport ==
    \E i \in SocketIds : sockets[i].st = "free" /\ sockets'[i].st # "free"

\* The address _buildWsUrl builds in the current state.
CurrentUrl == [base |-> _wsBase, room |-> _room]

\* The n-th element (n >= 1) of 1000, 2000, 3000, 5000, 5000, ...
ExpectedDelay(n) == BACKOFF_MS[Min(n, Len(BACKOFF_MS))]

-----------------------------------------------------------------------------
(* C1.  At most one transport the session has opened is live (not yet       *)
(* closed, callbacks attached), in every reachable state.                   *)
C1_AtMostOneLiveTransport == Cardinality(LiveTransports) <= 1

(* C2.  At most one retry timer is pending, and a pending timer is the one  *)
(* the session holds: scheduling while one is pending adds none, and a      *)
(* timer the session has cancelled is not left to fire.                     *)
C2_AtMostOnePendingRetry ==
    /\ Cardinality(timers) <= 1
    /\ \A t \in timers : t.id = _reconnectTimer

\* A retry was asked for (a denied permission check, with intent and room
\* set) while one was pending, and there is still exactly one timer.
C2_Witness ==
    /\ lastOp.op = "denied"
    /\ lastOp.delay = 0
    /\ _shouldReconnect
    /\ _room # <<>>
    /\ Cardinality(timers) = 1

(* C3.  Between disconnect() and the next setRoom or reconnect call no      *)
(* retry timer fires and no transport is opened.                            *)
C3_QuietAfterDisconnect ==
    [][(manualStop /\ manualStop') =>
           (lastOp'.op # "timer" /\ ~OpensTransport)]_vars

(* C4.  setRoom(x), x non-empty and equal to the current room, called while *)
(* a transport handle is held, changes nothing: no teardown, no new connect *)
(* attempt, and room, facts, intent, backoff index and pending retry stay.  *)
C4_SetRoomSameRoomNoOp ==
    [][(/\ lastOp'.op = "setRoom"
        /\ normalizeRoom(lastOp'.arg) # <<>>
        /\ normalizeRoom(lastOp'.arg) = _room
        /\ _ws # Null) => UNCHANGED progVars]_vars

\* setRoom with the current room returned with the handle still held, the
\* session connected and facts received.
C4_Witness ==
    /\ lastOp.op = "setRoom"
    /\ normalizeRoom(lastOp.arg) = _room
    /\ _ws # Null
    /\ _connected
    /\ _gesture = "wave"
    /\ _subscribers = 300

(* C5.  Right after setRoom(x), x non-empty and different from the current  *)
(* room, connected is false, label is empty, confidence and subscriberCount *)
(* are 0.                                                                   *)
C5_SetRoomNewRoomResetsFacts ==
    [][(/\ lastOp'.op = "setRoom"
        /\ normalizeRoom(lastOp'.arg) # <<>>
        /\ normalizeRoom(lastOp'.arg) # _room)
       => (/\ ~_connected'
           /\ _gesture' = ""
           /\ _confidence' = 0
           /\ _subscribers' = 0)]_vars

(* C6.  connected = true implies the session holds a transport handle whose *)
(* open event has fired and whose error and close events have not.          *)
C6_ConnectedImpliesOpenTransport ==
    _connected => (_ws # Null /\ sockets[_ws].st = "open")

(* C7, as claimed.  Counting from any setRoom or reconnect call or open     *)
(* event, the n-th retry scheduled has the n-th delay of 1000, 2000, 3000,  *)
(* 5000, 5000, ...                                                          *)
C7_DelaysSinceAnyCommand ==
    lastOp.delay # 0 => lastOp.delay = ExpectedDelay(retriesSinceCommand)

(* C7, amended.  Counting from a setRoom that takes the (re)connect path, a *)
(* reconnect with a room set, or an open event, the n-th retry scheduled    *)
(* has the n-th delay of 1000, 2000, 3000, 5000, 5000, ...                  *)
C7_DelaysSinceCycleStart ==
    lastOp.delay # 0 => lastOp.delay = ExpectedDelay(retriesSinceCycle)

\* A fifth retry in a row was scheduled, with the table's last delay.
C7_Witness ==
    /\ retriesSinceCycle = 5
    /\ lastOp.delay = 5000

(* C8.  Right after disconnect(): intent is false, no retry is pending, no  *)
(* transport handle is held and connected is false; room, label, confidence *)
(* and subscriberCount are as before the call.                              *)
C8_DisconnectEffect ==
    [][lastOp'.op = "disconnect" =>
           (/\ ~_shouldReconnect'
            /\ _reconnectTimer' = Null
            /\ timers' = {}
            /\ _ws' = Null
            /\ ~_connected'
            /\ UNCHANGED <<_room, _gesture, _confidence, _subscribers>>)]_vars

\* disconnect() returned after tearing a socket down, with room and facts
\* still there.
C8_Witness ==
    /\ lastOp.op = "disconnect"
    /\ _room = <<"a">>
    /\ _gesture = "wave"
    /\ _subscribers = 300
    /\ ClosingSockets # {}

(* C9.  A manual setRoom with an empty or whitespace-only argument leaves   *)
(* room empty, intent false, no retry pending, no handle held and connected *)
(* false, and label, confidence, subscriberCount and backoff index as they  *)
(* were.  setRoomInternal with an empty room and auto = true sets room      *)
(* empty and connected false and leaves everything else as it was.          *)
C9_ClearRoom ==
    [][/\ (lastOp'.op = "setRoom" /\ normalizeRoom(lastOp'.arg) = <<>>) =>
              (/\ _room' = <<>>
               /\ ~_shouldReconnect'
               /\ _reconnectTimer' = Null
               /\ timers' = {}
               /\ _ws' = Null
               /\ ~_connected'
               /\ UNCHANGED <<_gesture, _confidence, _subscribers,
                              _backoffIndex>>)
       /\ (lastOp'.op = "setRoomInternalAuto" /\ lastOp'.arg = <<>>) =>
              (/\ _room' = <<>>
               /\ ~_connected'
               /\ UNCHANGED <<_wsBase, _gesture, _confidence, _subscribers,
                              _defaultRoom, _ws, _shouldReconnect,
                              _reconnectTimer, _backoffIndex, sockets, timers,
                              canFetchPending>>)]_vars

\* The automatic call with an empty room returned with intent, a pending
\* retry and received facts left in place.
C9_Witness ==
    /\ lastOp.op = "setRoomInternalAuto"
    /\ _room = <<>>
    /\ _shouldReconnect
    /\ _reconnectTimer # Null
    /\ _gesture = "wave"

(* C10.  reconnect() with a room set tears the held transport down, cancels *)
(* the pending retry, sets the backoff index to 0 and intent to true and    *)
(* starts a connect attempt, connected or not; with no room set it sets     *)
(* connected to false and changes nothing else.                             *)
C10_ReconnectForcesCycle ==
    [][lastOp'.op = "reconnect" =>
           IF _room # <<>>
           THEN /\ _ws' = Null
                /\ LiveTransports' = LiveTransports \ {_ws}
                /\ _ws # Null => sockets'[_ws].st = "closing"
                /\ _reconnectTimer' = Null
                /\ timers' = {}
                /\ _backoffIndex' = 0
                /\ _shouldReconnect'
                /\ canFetchPending' = canFetchPending (+) SetToBag({CurrentUrl})
           ELSE /\ ~_connected'
                /\ UNCHANGED <<_room, _wsBase, _gesture, _confidence,
                               _subscribers, _defaultRoom, _ws,
                               _shouldReconnect, _reconnectTimer,
                               _backoffIndex, sockets, timers,
                               canFetchPending>>]_vars

\* reconnect() returned after tearing down the socket of a connected
\* session (connected is never set by reconnect), with an attempt started.
C10_Witness ==
    /\ lastOp.op = "reconnect"
    /\ _connected
    /\ ClosingSockets # {}
    /\ _ws = Null
    /\ BagCardinality(canFetchPending) >= 1

(* C11.  Every connect attempt that fails (the permission check denies or   *)
(* raises, the WebSocket constructor throws) and every close event of the   *)
(* held transport leaves connected false and, when intent is true and a     *)
(* room is set, leaves a retry timer pending.                               *)
C11_FailureLeavesRetryPending ==
    (\/ lastOp.op \in {"denied", "rejected", "constructorThrows"}
     \/ (lastOp.op = "close" /\ lastOp.sock = "held"))
    => (/\ ~_connected
        /\ (_shouldReconnect /\ _room # <<>>) =>
               (/\ _reconnectTimer # Null
                /\ \E t \in timers : t.id = _reconnectTimer))

\* The held transport closed with intent and room set, and the handler
\* scheduled a retry.
C11_Witness ==
    /\ lastOp.op = "close"
    /\ lastOp.sock = "held"
    /\ lastOp.delay # 0
    /\ _shouldReconnect
    /\ _room # <<>>
    /\ _reconnectTimer # Null

\* The last job started a connect attempt (called _openWs past its guards):
\* the constructor or a setRoom on the (re)connect path, a reconnect with a
\* room set, or a retry timer that found no handle, intent and a room.
AttemptStarted ==
    \/ lastOp.op \in {"constructor", "setRoom"} /\ _room # <<>> /\ _ws = Null
    \/ lastOp.op = "reconnect" /\ _room # <<>>
    \/ lastOp.op = "timer" /\ _ws = Null /\ _shouldReconnect /\ _room # <<>>

(* C12.  On a host whose timers fire and whose permission checks settle:    *)
(* whenever intent is true, a room is set and no transport handle is held,  *)
(* eventually a connect attempt starts, or a transport is obtained from the *)
(* attempt in flight, or intent or room has been cleared.                   *)
C12_RetryEventuallyStarts ==
    (_shouldReconnect /\ _room # <<>> /\ _ws = Null)
        ~> (\/ AttemptStarted
            \/ _ws # Null
            \/ ~_shouldReconnect
            \/ _room = <<>>)

\* A retry timer fired after a failed attempt and started the next attempt.
C12_Witness ==
    /\ lastOp.op = "timer"
    /\ AttemptStarted
    /\ retriesSinceCycle >= 2
    /\ canFetchPending # EmptyBag

(* C13.  A "gesture" frame sets label to the frame's label if that is a     *)
(* string, else to "", and confidence to the frame's confidence if that     *)
(* coerces to a finite number, else to 0, and leaves subscriberCount; a     *)
(* "presence" frame sets subscriberCount to the frame's subscribers if that *)
(* coerces to a finite number, else keeps it, and leaves label and          *)
(* confidence.                                                              *)
C13_InterpreterResult ==
    [][\A i \in SocketIds, data \in Frames :
          (/\ WsMessage(i, data)
           /\ sockets[i].attached
           /\ data.parse = "object") =>
              /\ data.type = Str("gesture") =>
                     /\ _gesture' = IF data.label.t = "string"
                                    THEN data.label.s ELSE ""
                     /\ _confidence' = IF Number(data.confidence).finite
                                       THEN Number(data.confidence).n ELSE 0
                     /\ _subscribers' = _subscribers
              /\ data.type = Str("presence") =>
                     /\ _subscribers' = IF Number(data.subscribers).finite
                                        THEN Number(data.subscribers).n
                                        ELSE _subscribers
                     /\ _gesture' = _gesture
                     /\ _confidence' = _confidence]_vars

\* Frames of both kinds have been interpreted: after a message event of the
\* held transport the facts of a gesture frame and the count of a presence
\* frame stand together.
C13_Witness ==
    /\ lastOp.op = "message"
    /\ lastOp.sock = "held"
    /\ _subscribers = 300
    /\ _gesture = "wave"
    /\ _confidence = 87

(* C14.  Whenever a transport is opened, intent is true and the room in its *)
(* address is the session's current room: an attempt whose permission check *)
(* settles after disconnect(), after setRoom("") or after a change of room  *)
(* opens no transport.                                                      *)
C14_OpenedForCurrentRequest ==
    [][\A i \in SocketIds :
          (sockets[i].st = "free" /\ sockets'[i].st # "free") =>
              (/\ _shouldReconnect'
               /\ sockets'[i].url.room = _room')]_vars

(* C15.  At most one connect attempt is in flight (started, its permission  *)
(* check not yet settled) in every reachable state.                         *)
C15_AtMostOneAttemptInFlight == BagCardinality(canFetchPending) <= 1

(* C16.  No event of a discarded transport changes the session or the       *)
(* facts.  Discarded are the sockets _closeWs has torn down and the sockets *)
(* a newer one has replaced: this._ws only ever takes the socket just       *)
(* constructed, so while a handle is held every other socket is an older    *)
(* one.  In particular the close event of an old socket does not clear the  *)
(* handle of a newer one.                                                   *)
C16_DiscardedTransportIsInert ==
    [][(/\ lastOp'.op \in {"open", "message", "error", "close"}
        /\ \/ lastOp'.sock = "detached"
           \/ lastOp'.sock = "orphan" /\ _ws # Null)
       => UNCHANGED <<_connected, _room, _wsBase, _gesture, _confidence,
                      _subscribers, _defaultRoom, _ws, _shouldReconnect,
                      _reconnectTimer, _backoffIndex, timers,
                      canFetchPending>>]_vars

\* The frame is none the interpreter acts on: its text does not parse, it
\* is no object, or its type is neither "gesture" nor "presence".
Unrecognised(data) ==
    \/ data.parse # "object"
    \/ data.type \notin {Str("gesture"), Str("presence")}

(* C17.  A frame that does not decode, is no object or has no type or an    *)
(* unrecognised one changes no state; no frame at all changes room,         *)
(* connected, intent, backoff index, the pending retry or the handle.       *)
C17_FrameEffect ==
    [][\A i \in SocketIds, data \in Frames :
          WsMessage(i, data) =>
              /\ UNCHANGED <<_room, _connected, _shouldReconnect,
                             _backoffIndex, _reconnectTimer, timers, _ws>>
              /\ Unrecognised(data) => UNCHANGED progVars]_vars

\* A message event reached the handler of the held transport with facts
\* already received and a connected session.
C17_Witness ==
    /\ lastOp.op = "message"
    /\ lastOp.sock = "held"
    /\ _connected
    /\ _gesture = "wave"
    /\ _subscribers = 300
    /\ _ws # Null

(* C18.  The backoff index is 0 right after every open event of the held   *)
(* transport, after every reconnect() with a room set and after every       *)
(* setRoom that takes the (re)connect path (which leaves a room and no      *)
(* handle: the no-op leaves the handle, the clearing leaves no room).       *)
C18_BackoffReset ==
    (\/ lastOp.op = "open" /\ lastOp.sock = "held"
     \/ lastOp.op = "reconnect" /\ _room # <<>>
     \/ lastOp.op = "setRoom" /\ _room # <<>> /\ _ws = Null)
    => _backoffIndex = 0

\* The held transport opened: the session is connected, the index is 0.
C18_Witness ==
    /\ lastOp.op = "open"
    /\ lastOp.sock = "held"
    /\ _connected
    /\ _backoffIndex = 0

(* C19.  A firing retry timer starts a connect attempt only if no handle    *)
(* is held, intent is true and a room is set; otherwise it only clears the  *)
(* pending-retry handle.  Either way it schedules no retry and changes      *)
(* nothing else.                                                            *)
C19_RetryFiring ==
    [][lastOp'.op = "timer" =>
           /\ _reconnectTimer' = Null
           /\ timers' = {}
           /\ lastOp'.delay = 0
           /\ canFetchPending' =
                  IF _ws = Null /\ _shouldReconnect /\ _room # <<>>
                  THEN canFetchPending (+) SetToBag({CurrentUrl})
                  ELSE canFetchPending
           /\ UNCHANGED <<_connected, _room, _wsBase, _gesture, _confidence,
                          _subscribers, _defaultRoom, _ws, _shouldReconnect,
                          _backoffIndex, sockets>>]_vars

\* A retry timer fired while a handle was held and started nothing.
C19_Witness ==
    /\ lastOp.op = "timer"
    /\ _ws # Null
    /\ _shouldReconnect
    /\ _room # <<>>
    /\ _reconnectTimer = Null
    /\ canFetchPending = EmptyBag

\* The last index of the delay table.
MaxBackoffIndex == Len(BACKOFF_MS) - 1

(* C20.  The backoff index is in 0..3 in every reachable state; a job that  *)
(* schedules a retry raises it by one unless it is 3 already, and a job on  *)
(* a failure path whose call of _scheduleReconnect is suppressed leaves it  *)
(* as it was.                                                               *)
C20_BackoffIndexBounds ==
    [][/\ _backoffIndex \in 0..MaxBackoffIndex
       /\ _backoffIndex' \in 0..MaxBackoffIndex
       /\ lastOp'.delay # 0 =>
              _backoffIndex' = Min(_backoffIndex + 1, MaxBackoffIndex)
       /\ (/\ lastOp'.delay = 0
           /\ lastOp'.op \in {"denied", "rejected", "constructorThrows",
                               "close"})
          => _backoffIndex' = _backoffIndex]_vars

\* A fifth retry in a row was scheduled with the index at 3 already, and
\* the index stayed 3.
C20_Witness ==
    /\ lastOp.delay = 5000
    /\ retriesSinceCycle = 5
    /\ _backoffIndex = MaxBackoffIndex

(* C21.  The session is never stranded: whenever intent is true and a room  *)
(* is set, a transport handle is held, or a retry timer is pending, or a    *)
(* connect attempt is in flight on its permission check.                    *)
C21_NeverStranded ==
    (_shouldReconnect /\ _room # <<>>) =>
        (\/ _ws # Null /\ _ws \in LiveTransports
         \/ timers # {}
         \/ canFetchPending # EmptyBag)

\* The held transport closed and left nothing but the retry timer.
C21_Witness ==
    /\ lastOp.op = "close"
    /\ lastOp.sock = "held"
    /\ _shouldReconnect
    /\ _room # <<>>
    /\ _ws = Null
    /\ LiveTransports = {}
    /\ canFetchPending = EmptyBag
    /\ Cardinality(timers) = 1

(* C22.  connected is never under-reported: whenever the held transport has *)
(* fired its open event and no error or close event since, connected is     *)
(* true.                                                                    *)
C22_ConnectedNotUnderReported ==
    (_ws # Null /\ sockets[_ws].st = "open") => _connected

(* C23.  The facts shown belong to the room shown: every change of label,   *)
(* confidence or subscriberCount by a frame is the work of a transport      *)
(* opened for the session's current room (some socket whose message event   *)
(* this step can be was constructed with the current room in its address).  *)
C23_FactsBelongToRoom ==
    [][(/\ lastOp'.op = "message"
        /\ <<_gesture, _confidence, _subscribers>>' #
               <<_gesture, _confidence, _subscribers>>)
       => \E i \in SocketIds, data \in Payloads :
              /\ WsMessage(i, data)
              /\ sockets[i].url.room = _room]_vars

(* C24.  Right after a setRoom with a non-empty room and right after a      *)
(* reconnect() with a room set, intent is true.                             *)
C24_CommandRestoresIntent ==
    (\/ lastOp.op = "setRoom" /\ normalizeRoom(lastOp.arg) # <<>>
     \/ lastOp.op = "reconnect" /\ _room # <<>>)
    => _shouldReconnect

====
